---- MODULE Spec2Model ----
(***************************************************************************)
(* Model of scripts/update.py: the tools-submodule updater.                *)
(*                                                                         *)
(* One run of the script is a small sequential process: probe the path     *)
(* tools/.git, then either run() the update command (print, spawn, wait,   *)
(* raise on a non-zero status) or print the notice.  The interpreter turns *)
(* an uncaught exception into exit status 1.  The spawned command is an    *)
(* external process: it may change the working directory in any way and    *)
(* exit with any status.  The script may be run again after it finished.   *)
(***************************************************************************)
EXTENDS Integers, Sequences, FiniteSets, TLC

\* ---- bounds -------------------------------------------------------------
MaxInvocations == 3   \* runs of the script that are followed
MaxStatus == 2        \* the command exits with a status in 0..MaxStatus
MaxRev == 1           \* revisions the checked-out submodule content takes

VARIABLES
  fs,           \* working directory: kind of tools, kind of tools/.git, content
  pc,           \* position of the script
  found,        \* value of os.path.exists("tools/.git") at line 10
  cmd,          \* argument of run()
  lineBuffered, \* sys.stdout is a terminal (or unbuffered): print flushes
  stdoutBuf,    \* lines print() left in the buffer of sys.stdout
  out,          \* lines of the script written to standard output in this run
  spawned,      \* commands handed to subprocess.run in this run
  child,        \* "none", "running" or "exited"
  childStatus,  \* return code of the child once exited
  raised,       \* exception propagating out of run()
  exitStatus,   \* <<>> while the script runs, <<s>> once it has terminated
  fsBefore,     \* the working directory when this run started
  history       \* one record per finished run

vars == <<fs, pc, found, cmd, lineBuffered, stdoutBuf, out, spawned, child, childStatus, raised,
          exitStatus, fsBefore, history>>

\* ---- the working directory ----------------------------------------------
ToolsKinds == {"none", "file", "dir"}
MarkerKinds == {"none", "file", "dir", "dangling"}

FsStates ==
  { f \in [tools : ToolsKinds, marker : MarkerKinds, rev : 0..MaxRev] :
      f.tools # "dir" => f.marker = "none" }

CmdStatuses == 0..MaxStatus

\* os.stat("tools/.git"), which follows symbolic links
Stat(f) ==
  IF f.tools = "none" THEN "ENOENT"
  ELSE IF f.tools = "file" THEN "ENOTDIR"
  ELSE IF f.marker \in {"none", "dangling"} THEN "ENOENT"
  ELSE "ok"

os_path_isdir(f) == f.tools = "dir" /\ f.marker = "dir"

os_path_tools_exists(f) == f.tools # "none"

\* os.path.exists("tools/.git"): True when the stat succeeds
os_path_exists(f) == Stat(f) = "ok"

\* ---- literals of the script ---------------------------------------------
UpdateCmd == "git submodule update --remote --merge"
RunningLine(c) == "Running: " \o c
NoToolsLine == "No tools submodule found."

\* print(line): the line goes to sys.stdout, which writes it through at once
\* only when it is line-buffered; otherwise it stays in the buffer
PrintLine(line) ==
  IF lineBuffered
    THEN out' = Append(out, line) /\ stdoutBuf' = stdoutBuf
    ELSE stdoutBuf' = Append(stdoutBuf, line) /\ out' = out

Init ==
  /\ fs \in { f \in FsStates : f.rev = 0 }
  /\ pc = "main"
  /\ found = FALSE
  /\ cmd = ""
  /\ lineBuffered \in BOOLEAN
  /\ stdoutBuf = <<>>
  /\ out = <<>>
  /\ spawned = <<>>
  /\ child = "none"
  /\ childStatus = 0
  /\ raised = "none"
  /\ exitStatus = <<>>
  /\ fsBefore = fs
  /\ history = <<>>

\* line 10: if os.path.exists("tools/.git"), and the call of run() at line 11
Probe ==
  /\ pc = "main"
  /\ found' = os_path_exists(fs)
  /\ IF os_path_exists(fs)
       THEN pc' = "run_print" /\ cmd' = UpdateCmd
       ELSE pc' = "else_print" /\ cmd' = cmd
  /\ UNCHANGED <<lineBuffered, fs, stdoutBuf, out, spawned, child,
                 childStatus, raised, exitStatus, fsBefore, history>>

\* line 6: print(f"Running: {cmd}")
RunPrint ==
  /\ pc = "run_print"
  /\ PrintLine(RunningLine(cmd))
  /\ pc' = "run_spawn"
  /\ UNCHANGED <<lineBuffered, fs, found, cmd, spawned, child,
                 childStatus, raised, exitStatus, fsBefore, history>>

\* line 7: subprocess.run(cmd, shell=True, ...) starts the child
SubprocessSpawn ==
  /\ pc = "run_spawn"
  /\ spawned' = Append(spawned, cmd)
  /\ child' = "running"
  /\ pc' = "run_wait"
  /\ UNCHANGED <<lineBuffered, fs, found, cmd, stdoutBuf, out,
                 childStatus, raised, exitStatus, fsBefore, history>>

\* the external command changes the working directory
ChildStep ==
  /\ child = "running"
  /\ \E f \in FsStates : f # fs /\ fs' = f
  /\ UNCHANGED <<lineBuffered, pc, found, cmd, stdoutBuf, out, spawned,
                 child, childStatus, raised, exitStatus, fsBefore,
                 history>>

\* the external command exits
ChildExit ==
  /\ child = "running"
  /\ \E s \in CmdStatuses : childStatus' = s
  /\ child' = "exited"
  /\ UNCHANGED <<lineBuffered, fs, pc, found, cmd, stdoutBuf, out,
                 spawned, raised, exitStatus, fsBefore, history>>

SubprocessWait_nocheck ==
  /\ pc = "run_wait"
  /\ child = "exited"
  /\ raised' = "none"
  /\ pc' = "exit"
  /\ UNCHANGED <<lineBuffered, fs, found, cmd, stdoutBuf, out, spawned,
                 child, childStatus, exitStatus, fsBefore, history>>

SubprocessWait_nowait ==
  /\ pc = "run_wait"
  /\ raised' = IF childStatus # 0 THEN "CalledProcessError" ELSE "none"
  /\ pc' = "exit"
  /\ UNCHANGED <<lineBuffered, fs, found, cmd, stdoutBuf, out, spawned,
                 child, childStatus, exitStatus, fsBefore, history>>

SubprocessWait_retry ==
  /\ pc = "run_wait"
  /\ child = "exited"
  /\ IF childStatus # 0 /\ Len(spawned) < 2
       THEN raised' = "none" /\ pc' = "run_spawn"
       ELSE /\ raised' = IF childStatus # 0 THEN "CalledProcessError"
                         ELSE "none"
            /\ pc' = "exit"
  /\ UNCHANGED <<lineBuffered, fs, found, cmd, stdoutBuf, out, spawned,
                 child, childStatus, exitStatus, fsBefore, history>>

SubprocessWait_fallthrough ==
  /\ pc = "run_wait"
  /\ child = "exited"
  /\ raised' = IF childStatus # 0 THEN "CalledProcessError" ELSE "none"
  /\ pc' = IF childStatus # 0 THEN "exit" ELSE "else_print"
  /\ UNCHANGED <<lineBuffered, fs, found, cmd, stdoutBuf, out, spawned,
                 child, childStatus, exitStatus, fsBefore, history>>

\* line 7: subprocess.run waits for the child; check=True raises
\* CalledProcessError on a non-zero return code, which nothing catches
SubprocessWait ==
  /\ pc = "run_wait"
  /\ child = "exited"
  /\ raised' = IF childStatus # 0 THEN "CalledProcessError" ELSE "none"
  /\ pc' = "exit"
  /\ UNCHANGED <<lineBuffered, fs, found, cmd, stdoutBuf, out, spawned,
                 child, childStatus, exitStatus, fsBefore, history>>

ElsePrint_once ==
  /\ pc = "else_print"
  /\ IF history = <<>> THEN PrintLine(NoToolsLine)
                       ELSE UNCHANGED <<out, stdoutBuf>>
  /\ pc' = "exit"
  /\ UNCHANGED <<lineBuffered, fs, found, cmd, spawned, child,
                 childStatus, raised, exitStatus, fsBefore, history>>

ElsePrint_mkdir ==
  /\ pc = "else_print"
  /\ PrintLine(NoToolsLine)
  /\ fs' = [fs EXCEPT !.tools = "dir"]
  /\ pc' = "exit"
  /\ UNCHANGED <<lineBuffered, found, cmd, spawned, child, childStatus,
                 raised, exitStatus, fsBefore, history>>

\* line 13: print("No tools submodule found.")
ElsePrint ==
  /\ pc = "else_print"
  /\ PrintLine(NoToolsLine)
  /\ pc' = "exit"
  /\ UNCHANGED <<lineBuffered, fs, found, cmd, spawned, child,
                 childStatus, raised, exitStatus, fsBefore, history>>

RunRecord(status) ==
  [before |-> fsBefore, changed |-> fs # fsBefore, out |-> out \o stdoutBuf,
   spawned |-> Len(spawned), exit |-> status]

InterpreterExit_returncode ==
  /\ pc = "exit"
  /\ exitStatus' = <<childStatus>>
  /\ history' = Append(history, RunRecord(childStatus))
  /\ out' = out \o stdoutBuf
  /\ stdoutBuf' = <<>>
  /\ pc' = "done"
  /\ UNCHANGED <<lineBuffered, fs, found, cmd, spawned, child, childStatus,
                 raised, fsBefore>>

\* end of the module body, or an uncaught exception: the interpreter
\* flushes sys.stdout and exits with 0, or with 1 after the traceback
InterpreterExit ==
  /\ pc = "exit"
  /\ LET status == IF raised = "none" THEN 0 ELSE 1
     IN  /\ exitStatus' = <<status>>
         /\ history' = Append(history, RunRecord(status))
  /\ out' = out \o stdoutBuf
  /\ stdoutBuf' = <<>>
  /\ pc' = "done"
  /\ UNCHANGED <<lineBuffered, fs, found, cmd, spawned, child, childStatus,
                 raised, fsBefore>>

\* the script is started again in the same working directory
Reinvoke ==
  /\ pc = "done"
  /\ Len(history) < MaxInvocations
  /\ pc' = "main"
  /\ found' = FALSE
  /\ cmd' = ""
  /\ lineBuffered' \in BOOLEAN
  /\ stdoutBuf' = <<>>
  /\ out' = <<>>
  /\ spawned' = <<>>
  /\ child' = "none"
  /\ childStatus' = 0
  /\ raised' = "none"
  /\ exitStatus' = <<>>
  /\ fsBefore' = fs
  /\ UNCHANGED <<fs, history>>

Next ==
  \/ Probe
  \/ RunPrint
  \/ SubprocessSpawn
  \/ ChildStep
  \/ ChildExit
  \/ SubprocessWait
  \/ ElsePrint
  \/ InterpreterExit
  \/ Reinvoke

Spec == Init /\ [][Next]_vars

TypeOK ==
  /\ fs \in FsStates
  /\ fsBefore \in FsStates
  /\ pc \in {"main", "run_print", "run_spawn", "run_wait", "else_print",
             "exit", "done"}
  /\ found \in BOOLEAN
  /\ lineBuffered \in BOOLEAN
  /\ Len(stdoutBuf) + Len(out) <= 1
  /\ child \in {"none", "running", "exited"}
  /\ childStatus \in CmdStatuses
  /\ raised \in {"none", "CalledProcessError"}
  /\ Len(exitStatus) <= 1
  /\ Len(history) <= MaxInvocations

\* ---- properties ----------------------------------------------------------

\* something that resolves to a file or a directory is at tools/.git when
\* the run starts (nothing changes the directory before the probe)
MarkerPresent == fsBefore.tools = "dir" /\ fsBefore.marker \in {"file", "dir"}

MarkerMissing == fsBefore.marker = "none"

\* C1 as stated: with tools/.git present, the script's exit status equals
\* the exit status of the command, whatever that status is.
C1_ExitEqualsCommandStatus ==
  (pc = "done" /\ MarkerPresent /\ child = "exited")
    => exitStatus = <<childStatus>>

\* C1 amended: with tools/.git present, the script exits with 0 when the
\* command returned 0 and with 1 when the command returned any non-zero
\* status.
C1_ExitIsZeroOrOne ==
  (pc = "done" /\ MarkerPresent /\ child = "exited")
    => exitStatus = <<IF childStatus = 0 THEN 0 ELSE 1>>

C1_Witness ==
  /\ pc = "done"
  /\ MarkerPresent
  /\ child = "exited"
  /\ childStatus = 2
  /\ exitStatus = <<1>>

\* C2: when nothing is at tools/.git (no tools directory, or a tools
\* directory without .git), the run spawns no process at any point and ends
\* having printed exactly "No tools submodule found." with exit status 0.
C2_AbsentBranch ==
  MarkerMissing =>
    /\ spawned = <<>>
    /\ child = "none"
    /\ pc = "done" =>
         /\ out = <<"No tools submodule found.">>
         /\ exitStatus = <<0>>

C2_Witness ==
  /\ pc = "done"
  /\ fsBefore.tools = "dir"
  /\ fsBefore.marker = "none"
  /\ out = <<"No tools submodule found.">>
  /\ exitStatus = <<0>>

\* C3: a finished run has exit status 0 exactly when the marker was absent
\* or the command exited with 0; with the marker present and a non-zero
\* command status the exception is still propagating at exit and the exit
\* status is non-zero.
C3_ZeroIffAbsentOrSuccess ==
  pc = "done" =>
    /\ (exitStatus = <<0>>)
         <=> (~MarkerPresent \/ (child = "exited" /\ childStatus = 0))
    /\ (MarkerPresent /\ childStatus # 0) =>
         /\ raised = "CalledProcessError"
         /\ exitStatus # <<0>>
         /\ exitStatus # <<>>

C3_Witness ==
  /\ pc = "done"
  /\ MarkerPresent
  /\ childStatus = 1
  /\ raised = "CalledProcessError"
  /\ exitStatus = <<1>>

\* C4 as stated: the command is run exactly when a directory is at
\* tools/.git at probe time.
C4_RunIffDirectory ==
  pc = "done" => ((spawned # <<>>) <=> fsBefore.marker = "dir")

\* C4 amended: the command is run exactly when tools/.git exists at probe
\* time as a directory or as a regular file; with nothing there, or with a
\* dangling symbolic link there, the run takes the marker-absent branch.
C4_RunIffExists ==
  /\ pc \notin {"main"} =>
       (found <=> fsBefore.marker \in {"file", "dir"})
  /\ pc = "done" =>
       /\ (spawned # <<>>) <=> fsBefore.marker \in {"file", "dir"}
       /\ fsBefore.marker \in {"none", "dangling"} =>
            out = <<"No tools submodule found.">>

C4_Witness ==
  /\ pc = "done"
  /\ fsBefore.marker = "file"
  /\ spawned = <<"git submodule update --remote --merge">>

\* C5: a run spawns at most one child, only ever the command
\* "git submodule update --remote --merge", and with the marker present a
\* finished run has spawned it exactly once, whatever its exit status.
C5_SpawnedExactlyOnce ==
  /\ Len(spawned) <= 1
  /\ \A i \in 1..Len(spawned) :
       spawned[i] = "git submodule update --remote --merge"
  /\ (MarkerPresent /\ pc \in {"run_wait", "exit", "done"}) =>
       Len(spawned) = 1

C5_Witness ==
  /\ pc = "done"
  /\ MarkerPresent
  /\ childStatus # 0
  /\ spawned = <<"git submodule update --remote --merge">>

\* C6: whenever the child has been started (it is running, has exited, or
\* its failure is propagating), the line
\* "Running: git submodule update --remote --merge" has already been
\* written to standard output.
C6_RunningPrintedBeforeSpawn ==
  (spawned # <<>> \/ child # "none" \/ raised # "none") =>
    /\ Len(out) >= 1
    /\ out[1] = "Running: git submodule update --remote --merge"

\* C7: the script is never past subprocess.run while the child is running:
\* at exit and once terminated the child, if any was spawned, has exited,
\* and an exit status exists only then.
C7_WaitsForChild ==
  /\ pc \in {"exit", "done"} => child # "running"
  /\ (pc \in {"exit", "done"} /\ spawned # <<>>) => child = "exited"
  /\ child = "running" => (pc = "run_wait" /\ exitStatus = <<>>)
  /\ exitStatus # <<>> => pc = "done"

C7_Witness ==
  /\ pc = "done"
  /\ child = "exited"
  /\ exitStatus # <<>>

\* C8: every finished run that started with nothing at tools/.git printed
\* exactly "No tools submodule found." and exited with 0, however many runs
\* came before it; any two such runs have the same output and exit status.
C8_AbsentIdempotent ==
  /\ \A i \in 1..Len(history) :
       history[i].before.marker = "none" =>
         /\ history[i].out = <<"No tools submodule found.">>
         /\ history[i].exit = 0
  /\ \A i, j \in 1..Len(history) :
       (history[i].before.marker = "none" /\ history[j].before.marker = "none")
         => /\ history[i].out = history[j].out
            /\ history[i].exit = history[j].exit

C8_Witness ==
  /\ Len(history) >= 3
  /\ \A i \in 1..3 : history[i].before.marker = "none"
  /\ history[3].out = <<"No tools submodule found.">>

\* C9: the working directory changes only in steps of the running child,
\* which are no steps of the script; a run that spawned nothing ends with
\* the working directory it started with.
C9_OnlyChildChangesFs ==
  [][ /\ fs' # fs =>
           /\ child = "running"
           /\ child' = "running"
           /\ pc' = pc
           /\ out' = out
      /\ (pc' = "done" /\ spawned' = <<>>) => fs' = fsBefore' ]_vars

C9_Witness ==
  /\ pc = "done"
  /\ spawned = <<>>
  /\ fs = fsBefore
  /\ Len(history) >= 2
  /\ history[1].changed

\* C10: a run never prints more than one line of its own, and a finished
\* run printed exactly one: the "Running: ..." line exactly when it spawned
\* the command, the "No tools submodule found." line exactly when it did
\* not, also when the command failed.
C10_ExactlyOneLine ==
  /\ Len(out) + Len(stdoutBuf) <= 1
  /\ pc = "done" =>
       /\ Len(out) = 1
       /\ (out[1] = "Running: git submodule update --remote --merge")
            <=> (spawned # <<>>)
       /\ (out[1] = "No tools submodule found.") <=> (spawned = <<>>)

C10_Witness ==
  /\ pc = "done"
  /\ raised = "CalledProcessError"
  /\ out = <<"Running: git submodule update --remote --merge">>
====
